---- MODULE Spec2Model ----
(***************************************************************************)
(* Model of the stimulus-autocomplete controller.                          *)
(*                                                                         *)
(* The repository holds two editions of the controller:                    *)
(*   "plain"     src/src/autocomplete.js   (doFetch, optional hidden field) *)
(*   "withCache" src/unnamed/part_000      (AutocompleteCache)              *)
(* A widget instance is one of the two; `variant` says which.              *)
(*                                                                         *)
(* Strings are sequences of one-character strings.  The results list is a  *)
(* sequence of <li> records.  Text nodes and setHeight() only touch the    *)
(* presentation and are left out.                                          *)
(***************************************************************************)
EXTENDS Integers, Sequences, FiniteSets, TLC

\* ------------------------------------------------------------------ bounds
MaxFetches == 3     \* fetch cycles started during one run
MaxKeyFetches == 1  \* the same, in runs that also press keys and use the mouse
MaxOptionId == 3    \* ids handed out, and children of the list, in runs that
                    \* only merge responses

\* ------------------------------------------------------------ input sets
\* values the user may leave in the text input
InputValues ==
  { << " " >>, << "A", " " >>, << "a", "A" >>, << " ", "a", "A", "a" >> }
\* configured minLength values (0 is the Stimulus default of a Number value)
MinLengths == { 0, 2 }

\* JSON bodies the server may answer with
Payloads ==
  { [ items |-> <<>>, exact_items |-> <<>>, partial |-> TRUE ],
    [ items |-> << << "a" >>, << "A", "a" >>, << "a", "a" >> >>,
      exact_items |-> << << "A", "a" >> >>, partial |-> FALSE ],
    [ items |-> << << "a", " " >> >>, exact_items |-> <<>>, partial |-> FALSE ] }

\* the lists over S without a repeated entry
Arrangements(S) ==
  UNION { { l \in [ 1..n -> S ] : \A i, j \in 1..n : i # j => l[i] # l[j] } :
          n \in 0..Cardinality(S) }

\* items a response may list, in runs that only merge responses
ItemPool == { << "a" >>, << "A" >>, << "a", "a" >> }

\* the responses and queries of those runs
ExactLists == { <<>>, << << "A" >> >>, << << "a", "a" >>, << "a" >> >> }

Responses ==
  [ items : Arrangements(ItemPool), exact_items : ExactLists,
    partial : { FALSE } ]

MergeQueries == { << "a" >>, << "A", "a" >> }

\* the responses of the runs that merge and select
SelectResponses ==
  { [ items |-> <<>>, exact_items |-> <<>>, partial |-> FALSE ],
    [ items |-> << << "a" >>, << "A" >>, << "a", "a" >> >>,
      exact_items |-> <<>>, partial |-> FALSE ],
    [ items |-> << << "a", "a" >> >>, exact_items |-> << << "A" >> >>,
      partial |-> FALSE ] }

\* the longest results list a run can build
MaxChildren == 3 + MaxFetches

\* ------------------------------------------------------- string helpers
toLowerCase(s) == [ i \in 1..Len(s) |-> IF s[i] = "A" THEN "a" ELSE s[i] ]

RECURSIVE trimStart(_)
trimStart(s) == IF s # <<>> /\ Head(s) = " " THEN trimStart(Tail(s)) ELSE s

RECURSIVE trimEnd(_)
trimEnd(s) ==
  IF s # <<>> /\ s[Len(s)] = " " THEN trimEnd(SubSeq(s, 1, Len(s) - 1)) ELSE s

trim(s) == trimEnd(trimStart(s))

startsWith(s, k) == Len(k) <= Len(s) /\ SubSeq(s, 1, Len(k)) = k

\* String.prototype.indexOf: zero-based position of the first occurrence, or -1
indexOf(s, q) ==
  LET hits == { i \in 0..(Len(s) - Len(q)) : SubSeq(s, i + 1, i + Len(q)) = q }
  IN IF hits = {} THEN -1 ELSE CHOOSE i \in hits : \A j \in hits : i <= j

includes(list, x) == \E i \in DOMAIN list : list[i] = x

\* ------------------------------------------------------------ variables
VARIABLES
  variant,          \* "plain" | "withCache": which edition this instance is
  hasUrlValue,      \* data-autocomplete-url-value is set
  minLengthValue,   \* data-autocomplete-min-length-value
  hasHiddenTarget,  \* a hidden target exists (plain edition only)
  connected,        \* the listeners of connect() are attached
  inputValue,       \* inputTarget.value
  hiddenValue,      \* hiddenTarget.value
  timeoutId,        \* timers of the debounced wrapper still to fire; the
                    \* newest of them is the one `timeoutId` holds
  resultsTarget,    \* children of the results list, in document order
  resultsShown,     \* !resultsTarget.hidden
  activeDescendant, \* aria-activedescendant of the input, NoId when absent
  item_count,       \* this.item_count
  mouseDown,        \* this.mouseDown
  pressed,          \* the mouse button pressed on the results list is held
  uniqOptionId,     \* Autocomplete.uniqOptionId
  replaced,         \* the arguments of the latest replaceResults call
  abortController,  \* cycle whose AbortController is held, 0 for null
  cache,            \* AutocompleteCache.cache as <<[key, data]>> in key order
  cycles,           \* one record per started fetch cycle
  finished,         \* what the ended fetch cycles did (history)
  emitted,          \* the events the last step dispatched on the element
  lastOp            \* the keyboard or mouse handler the last step ran, if any

vars ==
  << variant, hasUrlValue, minLengthValue, hasHiddenTarget, connected,
     inputValue, hiddenValue, timeoutId, resultsTarget, resultsShown,
     activeDescendant, item_count, mouseDown, pressed, uniqOptionId, replaced,
     abortController, cache, cycles, finished, emitted, lastOp >>

config == << variant, hasUrlValue, minLengthValue, hasHiddenTarget >>

\* ------------------------------------------------------ the results list
\* value of an absent id attribute
NoId == -1

\* <li role="option" data-autocomplete-value=item>, not yet identified
newLi(item) ==
  [ value |-> item, disabled |-> FALSE, selected |-> FALSE, id |-> NoId ]

\* <li class="disabled sorry-message" aria-disabled>No results found for "query"
sorryLi(query) ==
  [ value |-> query, disabled |-> TRUE, selected |-> FALSE, id |-> NoId ]

InsertAt(s, i, e) == SubSeq(s, 1, i - 1) \o << e >> \o SubSeq(s, i, Len(s))

RemoveAt(s, i) == SubSeq(s, 1, i - 1) \o SubSeq(s, i + 1, Len(s))

Min(S) == CHOOSE i \in S : \A j \in S : i <= j

\* get options(): positions of the children matching optionSelector
options(dom) ==
  LET F[i \in 0..Len(dom)] ==
        IF i = 0 THEN <<>>
        ELSE IF dom[i].disabled THEN F[i - 1] ELSE Append(F[i - 1], i)
  IN F[Len(dom)]

\* get selectedOption(): position of the first child with aria-selected, 0 for null
selectedOption(dom) ==
  LET S == { i \in DOMAIN dom : dom[i].selected }
  IN IF S = {} THEN 0 ELSE Min(S)

\* sibling(next) without the `|| def` fallback: no wrap-around, no first pick
siblingNoDefault(dom, next) ==
  LET opts == options(dom)
      selected == selectedOption(dom)
      found == { j \in DOMAIN opts : opts[j] = selected }
      index == IF found = {} THEN -1 ELSE Min(found) - 1
      at(k) == IF k >= 0 /\ k < Len(opts) THEN opts[k + 1] ELSE 0
  IN IF next THEN at(index + 1) ELSE at(index - 1)

\* sibling(next): position of the option to move to, 0 when there is none
sibling(dom, next) ==
  LET opts == options(dom)
      selected == selectedOption(dom)
      found == { j \in DOMAIN opts : opts[j] = selected }
      index == IF found = {} THEN -1 ELSE Min(found) - 1
      at(k) == IF k >= 0 /\ k < Len(opts) THEN opts[k + 1] ELSE 0
      sib == IF next THEN at(index + 1) ELSE at(index - 1)
      def == IF next THEN at(0) ELSE at(Len(opts) - 1)
  IN IF sib # 0 THEN sib ELSE def

\* select(target) without the removal of aria-selected from the option that
\* was selected before
selectKeepsPrevious(dom, count, active, target) ==
  IF count > 0 /\ ~dom[target].disabled
  THEN [ dom |-> [ dom EXCEPT ![target].selected = TRUE ],
         active |-> dom[target].id ]
  ELSE [ dom |-> dom, active |-> active ]

\* select(target): the list and aria-activedescendant afterwards
select(dom, count, active, target) ==
  LET prev == selectedOption(dom)
      cleared == IF prev = 0 THEN dom
                 ELSE [ dom EXCEPT ![prev].selected = FALSE ]
  IN IF count > 0 /\ ~cleared[target].disabled
     THEN [ dom |-> [ cleared EXCEPT ![target].selected = TRUE ],
            active |-> cleared[target].id ]
     ELSE [ dom |-> cleared, active |-> active ]

\* hideSorryMessage(): remove the first li.sorry-message
hideSorryMessage(dom) ==
  LET S == { i \in DOMAIN dom : dom[i].disabled }
  IN IF S = {} THEN dom ELSE RemoveAt(dom, Min(S))

\* showSorryMessage(query): part_000 removes an old placeholder first
showSorryMessage(dom, query) ==
  IF variant = "withCache"
  THEN Append(hideSorryMessage(dom), sorryLi(query))
  ELSE Append(dom, sorryLi(query))

\* The loop of updateResults over `items`.  st.dom is the list, st.last the
\* position of last_li (0 for null), st.count is item_count, st.shown is
\* shown_items.  existing_lis are the options present when the merge began:
\* they are the enabled children that carry an id (identifyOptions has run
\* on every option a former merge created).
RECURSIVE mergeItems(_, _, _)
mergeItems(st, items, lower_query) ==
  IF items = <<>> THEN st
  ELSE
    LET item == Head(items)
        pos == indexOf(toLowerCase(item), lower_query)
        existing == { i \in DOMAIN st.dom :
                        /\ st.dom[i].id # NoId
                        /\ ~st.dom[i].disabled
                        /\ st.dom[i].value = item }
        at == IF st.last # 0 THEN st.last + 1 ELSE 1
    IN IF pos >= 0
       THEN IF existing # {}
            THEN mergeItems([ st EXCEPT !.last = Min(existing),
                                        !.count = @ + 1,
                                        !.shown = Append(@, item) ],
                            Tail(items), lower_query)
            ELSE mergeItems([ dom |-> InsertAt(st.dom, at, newLi(item)),
                              last |-> at,
                              count |-> st.count + 1,
                              shown |-> Append(st.shown, item) ],
                            Tail(items), lower_query)
       ELSE mergeItems(st, Tail(items), lower_query)

\* updateResults without its second loop
removeNothing(dom, shown) == dom

\* the second loop of updateResults: drop existing_lis that were not shown
removeUnshown(dom, shown) ==
  SelectSeq(dom, LAMBDA li :
    ~(li.id # NoId /\ ~li.disabled /\ ~includes(shown, li.value)))

\* updateResults(items, query): the list and item_count afterwards
updateResults(dom, items, query) ==
  LET st == mergeItems([ dom |-> dom, last |-> 0, count |-> 0, shown |-> <<>> ],
                       items, toLowerCase(query))
      kept == removeUnshown(st.dom, st.shown)
  IN [ dom |-> IF st.count = 0 THEN showSorryMessage(kept, query)
               ELSE hideSorryMessage(kept),
       count |-> st.count ]

\* identifyOptions(): give every option without an id the next unique id
identifyOptions(dom, uid) ==
  LET F[i \in 0..Len(dom)] ==
        IF i = 0 THEN [ dom |-> <<>>, uid |-> uid ]
        ELSE LET p == F[i - 1] IN
             IF ~dom[i].disabled /\ dom[i].id = NoId
             THEN [ dom |-> Append(p.dom, [ dom[i] EXCEPT !.id = p.uid ]),
                    uid |-> p.uid + 1 ]
             ELSE [ dom |-> Append(p.dom, dom[i]), uid |-> p.uid ]
  IN F[Len(dom)]

\* getUniqueItemList without the filter on `items`
getUniqueItemListNoFilter(json_response) ==
  json_response.exact_items \o json_response.items

\* getUniqueItemList(json_response)
getUniqueItemList(json_response) ==
  json_response.exact_items \o
    SelectSeq(json_response.items,
              LAMBDA item : ~includes(json_response.exact_items, item))

\* `!!this.options` in replaceResults: an Array is truthy, empty or not
optionsTruthy(opts) == TRUE

\* --------------------------------------------------- the widget's own state
\* The part of the state the synchronous helpers read and write, as a record:
\* dom = resultsTarget, shown = resultsShown, active = aria-activedescendant,
\* count = item_count, uid = uniqOptionId, input / hidden = the field values,
\* ev = the events dispatched on the element so far, replaced = the arguments
\* of the latest replaceResults call.
widget ==
  [ dom |-> resultsTarget, shown |-> resultsShown, active |-> activeDescendant,
    count |-> item_count, uid |-> uniqOptionId, input |-> inputValue,
    hidden |-> hiddenValue, ev |-> <<>>, replaced |-> replaced ]

toggleEvent(a) ==
  [ type |-> "toggle", action |-> a, value |-> <<>>, textValue |-> <<>> ]

changeEvent(value, textValue) ==
  [ type |-> "autocomplete.change", action |-> "",
    value |-> value, textValue |-> textValue ]

\* loadstart, load, error and loadend carry no detail
plainEvent(type) ==
  [ type |-> type, action |-> "", value |-> <<>>, textValue |-> <<>> ]

dispatch(w, types) ==
  [ w EXCEPT !.ev = @ \o [ i \in 1..Len(types) |-> plainEvent(types[i]) ] ]

\* open() without its `if (this.resultsShown) return`
openUnguarded(w) ==
  [ w EXCEPT !.shown = TRUE, !.ev = Append(@, toggleEvent("open")) ]

\* open()
open(w) ==
  IF w.shown THEN w
  ELSE [ w EXCEPT !.shown = TRUE, !.ev = Append(@, toggleEvent("open")) ]

\* close()
close(w) ==
  IF ~w.shown THEN w
  ELSE [ w EXCEPT !.shown = FALSE, !.active = NoId,
                  !.ev = Append(@, toggleEvent("close")) ]

\* hideAndRemoveOptions()
hideAndRemoveOptions(w) == [ close(w) EXCEPT !.dom = <<>> ]

\* replaceResults(json_response, query)
replaceResults(w, json_response, query) ==
  LET u == updateResults(w.dom, getUniqueItemList(json_response), query)
      idd == identifyOptions(u.dom, w.uid)
      w2 == [ w EXCEPT !.dom = idd.dom, !.count = u.count, !.uid = idd.uid,
                       !.replaced = [ json_response |-> json_response,
                                      all_items |-> getUniqueItemList(json_response),
                                      query |-> query ] ]
  IN IF optionsTruthy(options(w2.dom)) THEN open(w2) ELSE close(w2)

\* commit(selected), selected a position in the list.  The <li> elements
\* carry data-autocomplete-value only, so the label falls back to the text
\* content (plain) and the value is the item.
commit(w, selected) ==
  IF w.dom[selected].disabled THEN w
  ELSE
    LET item == w.dom[selected].value
        textValue == IF variant = "plain" THEN trim(item) ELSE item
        value == item
        w1 == IF variant = "plain"
              THEN IF hasHiddenTarget
                   THEN [ w EXCEPT !.input = textValue, !.hidden = value ]
                   ELSE [ w EXCEPT !.input = value ]
              ELSE [ w EXCEPT !.input = textValue ]
        w2 == hideAndRemoveOptions(w1)
    IN [ w2 EXCEPT !.ev = Append(@,
           IF variant = "plain" THEN changeEvent(value, textValue)
           ELSE changeEvent(<<>>, textValue)) ]

\* the widget state after a handler, with the events it dispatched
SetWidget(w, op) ==
  /\ resultsTarget' = w.dom
  /\ resultsShown' = w.shown
  /\ activeDescendant' = w.active
  /\ item_count' = w.count
  /\ uniqOptionId' = w.uid
  /\ inputValue' = w.input
  /\ hiddenValue' = w.hidden
  /\ emitted' = w.ev
  /\ replaced' = w.replaced
  /\ lastOp' = op

\* ---------------------------------------------------------------- the cache
\* findInCache(query) without the test of `partial`
findInCacheAnyPrefix(c, query) ==
  LET q == toLowerCase(query)
      exact == { i \in DOMAIN c : c[i].key = q }
      prefix == { i \in DOMAIN c : startsWith(q, c[i].key) }
  IN IF exact # {} THEN Min(exact)
     ELSE IF prefix # {} THEN Min(prefix)
     ELSE 0

\* findInCache(query): position of the entry used, 0 for null
findInCache(c, query) ==
  LET q == toLowerCase(query)
      exact == { i \in DOMAIN c : c[i].key = q }
      prefix == { i \in DOMAIN c : ~c[i].data.partial /\ startsWith(q, c[i].key) }
  IN IF exact # {} THEN Min(exact)
     ELSE IF prefix # {} THEN Min(prefix)
     ELSE 0

\* a cache that keeps the latest entry only
addToCacheEvicting(c, query, data) ==
  << [ key |-> toLowerCase(query), data |-> data ] >>

\* addToCache(query, data): an existing key keeps its place in Object.keys
addToCache(c, query, data) ==
  LET q == toLowerCase(query)
      at == { i \in DOMAIN c : c[i].key = q }
  IN IF at # {} THEN [ c EXCEPT ![Min(at)].data = data ]
     ELSE Append(c, [ key |-> q, data |-> data ])

\* ------------------------------------------------------------ fetch cycles
\* cycles[c] is the c-th call of fetchResults that got past the URL check.
\* status: "pending"  the request is on the wire
\*         "decoding" the response arrived ok, response.json() is running
\*         "done"     the cycle ended; its closure is garbage
\* query:  the query of the cycle while it waits for its request
\* events: the loadstart / load / error / loadend events dispatched so far
\* superseded: a later fetchResults started while this request was pending
newCycle(query) ==
  [ query |-> query, status |-> "pending", events |-> << "loadstart" >>,
    superseded |-> FALSE ]

doneCycle ==
  [ query |-> <<>>, status |-> "done", events |-> <<>>, superseded |-> FALSE ]

unfinished(c) == c.status \in { "pending", "decoding" }

\* The record `finished` keeps of a cycle that ended.
\* outcome: "loaded"  the payload was handed to replaceResults
\*          "failed"  non-2xx status, transport error or decode error
\*          "aborted" its AbortController was aborted
\* hit:     the cache key that answered it, <<>> when the network did
\* query:   the query a cache hit answered, <<>> when the network did
\* merged:  replaceResults ran with the payload of this cycle
ended(c, outcome, hit, events, merged) ==
  [ outcome |-> outcome, hit |-> hit,
    query |-> IF hit # <<>> THEN c.query ELSE <<>>,
    events |-> c.events \o events,
    merged |-> merged, superseded |-> c.superseded ]

\* the try block of fetchResults ran to its end after the await
loaded(c, hit) == ended(c, "loaded", hit, << "load", "loadend" >>, TRUE)

\* a catch block that forgets loadend
failedNoLoadend(c) == ended(c, "failed", <<>>, << "error" >>, FALSE)

\* the await threw: the catch block of fetchResults runs
failed(c) == ended(c, "failed", <<>>, << "error", "loadend" >>, FALSE)

\* the await threw an AbortError: the same catch block runs
aborted(c) == ended(c, "aborted", <<>>, << "error", "loadend" >>, FALSE)

\* abortLastRequest(): aborting rejects the request held, if it is unfinished
abortLastRequest(cs, fin, ctrl) ==
  IF ctrl # 0 /\ unfinished(cs[ctrl])
  THEN [ cycles |-> [ cs EXCEPT ![ctrl] = doneCycle ],
         finished |-> fin \cup { aborted(cs[ctrl]) } ]
  ELSE [ cycles |-> cs, finished |-> fin ]

markSuperseded(cs) ==
  LET F[i \in 0..Len(cs)] ==
        IF i = 0 THEN <<>>
        ELSE Append(F[i - 1],
                    IF cs[i].status = "pending"
                    THEN [ cs[i] EXCEPT !.superseded = TRUE ] ELSE cs[i])
  IN F[Len(cs)]

\* ------------------------------------------------------------------ Init
\* `replaced` before the first call of replaceResults (a query is never empty)
noReplace ==
  [ json_response |-> [ items |-> <<>>, exact_items |-> <<>>, partial |-> FALSE ],
    all_items |-> <<>>, query |-> <<>> ]

\* The state once connect() has run on a page whose results list is empty
\* and hidden.
Init ==
  /\ variant \in { "plain", "withCache" }
  /\ hasUrlValue \in BOOLEAN
  /\ minLengthValue \in MinLengths
  /\ hasHiddenTarget \in (IF variant = "plain" THEN BOOLEAN ELSE { FALSE })
  /\ connected = TRUE
  /\ inputValue = <<>>
  /\ hiddenValue = <<>>
  /\ timeoutId = 0
  /\ resultsTarget = <<>>
  /\ resultsShown = FALSE
  /\ activeDescendant = NoId
  /\ item_count = 0
  /\ mouseDown = FALSE
  /\ pressed = FALSE
  /\ uniqOptionId = 0
  /\ replaced = noReplace
  /\ abortController = 0
  /\ cache = <<>>
  /\ cycles = <<>>
  /\ finished = {}
  /\ emitted = <<>>
  /\ lastOp = ""

\* ------------------------------------------------------------ fetchResults
\* fetchResults(query) up to its await, and past it when the cache answers:
\* a promise that is already resolved resumes before any other event.
fetchResults(w, query, op) ==
  LET hit == IF variant = "withCache" THEN findInCache(cache, query) ELSE 0
      cs == markSuperseded(cycles)
      ab == abortLastRequest(cs, finished, abortController)
      n == Len(cycles) + 1
      w1 == dispatch(w, << "loadstart" >>)
  IN IF ~hasUrlValue
     THEN /\ SetWidget(w, op)
          /\ UNCHANGED << abortController, cache, cycles, finished >>
     ELSE IF hit # 0
     THEN /\ SetWidget(dispatch(replaceResults(w1, cache[hit].data, query),
                                << "load", "loadend" >>), op)
          /\ cycles' = Append(cs, doneCycle)
          /\ finished' = finished \cup { loaded(newCycle(query), cache[hit].key) }
          /\ UNCHANGED << abortController, cache >>
     ELSE /\ SetWidget(IF ab.cycles # cs
                       THEN dispatch(w1, << "error", "loadend" >>) ELSE w1, op)
          /\ cycles' = Append(ab.cycles, newCycle(query))
          /\ finished' = ab.finished
          /\ abortController' = n
          /\ UNCHANGED cache

\* ------------------------------------------------------------ the handlers
\* clearTimeout(timeoutId): the timer held, if it has not fired, is cancelled
clearTimeout(pending) == IF pending > 0 THEN pending - 1 ELSE 0

\* setTimeout(fn, delay): one more timer to fire
setTimeout(pending) == pending + 1

\* a wrapper that arms a timer without cancelling the one it holds
debounceNoClear(pending) == setTimeout(pending)

\* the wrapper debounce() returns: clearTimeout, then setTimeout
debounce(pending) == setTimeout(clearTimeout(pending))

\* "input" event: the debounced wrapper restarts the timer
onInput(v) ==
  /\ connected
  /\ inputValue' = v
  /\ timeoutId' = debounce(timeoutId)
  /\ emitted' = <<>>
  /\ lastOp' = ""
  /\ UNCHANGED << config, connected, hiddenValue, resultsTarget, resultsShown,
                  activeDescendant, item_count, mouseDown, pressed, uniqOptionId, replaced,
                  abortController, cache, cycles, finished >>

\* the debounce timer fires: onInputChange()
onInputChange ==
  /\ timeoutId > 0
  /\ timeoutId' = timeoutId - 1
  /\ LET w == IF variant = "plain" /\ hasHiddenTarget
              THEN [ widget EXCEPT !.hidden = <<>> ] ELSE widget
         query == trim(inputValue)
     IN IF query # <<>> /\ Len(query) >= minLengthValue
        THEN /\ (hasUrlValue => Len(cycles) < MaxFetches)
             /\ fetchResults(w, query, "")
        ELSE /\ SetWidget(hideAndRemoveOptions(w), "")
             /\ UNCHANGED << abortController, cache, cycles, finished >>
  /\ UNCHANGED << config, connected, mouseDown, pressed >>

\* the response of a pending request arrives, with a 2xx status or not
onResponse(c, ok) ==
  /\ c \in DOMAIN cycles
  /\ cycles[c].status = "pending"
  /\ cycles' =
       IF ok THEN [ cycles EXCEPT ![c].status = "decoding" ]
       ELSE [ cycles EXCEPT ![c] = doneCycle ]
  /\ finished' = IF ok THEN finished ELSE finished \cup { failed(cycles[c]) }
  /\ abortController' = IF variant = "plain" THEN 0 ELSE abortController
  /\ emitted' = IF ok THEN <<>> ELSE dispatch(widget, << "error", "loadend" >>).ev
  /\ lastOp' = ""
  /\ UNCHANGED << config, connected, inputValue, hiddenValue, timeoutId,
                  resultsTarget, resultsShown, activeDescendant, item_count,
                  mouseDown, pressed, uniqOptionId, replaced, cache >>

\* a failure path that also hides and empties the list
onTransportErrorHides(c) ==
  /\ c \in DOMAIN cycles
  /\ unfinished(cycles[c])
  /\ cycles' = [ cycles EXCEPT ![c] = doneCycle ]
  /\ finished' = finished \cup { failed(cycles[c]) }
  /\ SetWidget(dispatch(hideAndRemoveOptions(widget), << "error", "loadend" >>), "")
  /\ UNCHANGED << config, connected, timeoutId, mouseDown, pressed, abortController, cache >>

\* the connection breaks, or the body cannot be read or parsed
onTransportError(c) ==
  /\ c \in DOMAIN cycles
  /\ unfinished(cycles[c])
  /\ cycles' = [ cycles EXCEPT ![c] = doneCycle ]
  /\ finished' = finished \cup { failed(cycles[c]) }
  /\ emitted' = dispatch(widget, << "error", "loadend" >>).ev
  /\ lastOp' = ""
  /\ UNCHANGED << config, connected, inputValue, hiddenValue, timeoutId,
                  resultsTarget, resultsShown, activeDescendant, item_count,
                  mouseDown, pressed, uniqOptionId, replaced, abortController, cache >>

\* response.json() resolves with `data`: the rest of fetchResults runs
onDecoded(c, data) ==
  /\ c \in DOMAIN cycles
  /\ cycles[c].status = "decoding"
  /\ SetWidget(dispatch(replaceResults(widget, data, cycles[c].query),
                        << "load", "loadend" >>), "")
  /\ cycles' = [ cycles EXCEPT ![c] = doneCycle ]
  /\ finished' = finished \cup { loaded(cycles[c], <<>>) }
  /\ IF variant = "withCache"
     THEN /\ abortController' = 0
          /\ cache' = addToCache(cache, cycles[c].query, data)
     ELSE UNCHANGED << abortController, cache >>
  /\ UNCHANGED << config, connected, timeoutId, mouseDown, pressed >>

\* a handler that only touches the widget state
WidgetOnly(w, op) ==
  /\ SetWidget(w, op)
  /\ UNCHANGED << config, connected, timeoutId, mouseDown, pressed, abortController,
                  cache, cycles, finished >>

\* onEscapeKeydown without its `if (!this.resultsShown) return`
onEscapeKeydownUnguarded ==
  /\ connected
  /\ WidgetOnly(hideAndRemoveOptions(widget), "Escape")

onEscapeKeydown ==
  /\ connected
  /\ WidgetOnly(IF ~resultsShown THEN widget ELSE hideAndRemoveOptions(widget),
                "Escape")

\* onArrowDownKeydown (next) and onArrowUpKeydown (~next)
arrow(w, next) ==
  LET item == sibling(w.dom, next)
      r == select(w.dom, w.count, w.active, item)
  IN IF item # 0 THEN [ w EXCEPT !.dom = r.dom, !.active = r.active ] ELSE w

onArrowDownKeydown ==
  /\ connected
  /\ WidgetOnly(arrow(widget, TRUE), "ArrowDown")

onArrowUpKeydown ==
  /\ connected
  /\ WidgetOnly(arrow(widget, FALSE), "ArrowUp")

\* what onTabKeydown does
tabKeydown(w) ==
  LET selected == selectedOption(w.dom)
  IN IF selected # 0 THEN commit(w, selected) ELSE w

\* what onEnterKeydown does
enterKeydown(w) ==
  LET selected == selectedOption(w.dom)
  IN IF selected # 0 /\ w.shown THEN commit(w, selected) ELSE w

onTabKeydown ==
  /\ connected
  /\ WidgetOnly(tabKeydown(widget), "Tab")

onEnterKeydown ==
  /\ connected
  /\ WidgetOnly(enterKeydown(widget), "Enter")

\* what onInputBlur does
inputBlur(w) == IF mouseDown THEN w ELSE close(w)

onInputBlur ==
  /\ connected
  /\ WidgetOnly(inputBlur(widget), "blur")

\* a click on child i of the visible list
onResultsClick(i) ==
  /\ connected
  /\ resultsShown
  /\ i \in DOMAIN resultsTarget
  /\ WidgetOnly(IF resultsTarget[i].disabled THEN widget ELSE commit(widget, i),
                "click")

onResultsMouseDown ==
  /\ connected
  /\ ~pressed
  /\ mouseDown' = TRUE
  /\ pressed' = TRUE
  /\ emitted' = <<>>
  /\ lastOp' = "mousedown"
  /\ UNCHANGED << config, connected, inputValue, hiddenValue, timeoutId,
                  resultsTarget, resultsShown, activeDescendant, item_count,
                  uniqOptionId, replaced, abortController, cache, cycles, finished >>

\* the once-listener of onResultsMouseDown: mouseup on the results list
onResultsMouseUp ==
  /\ mouseDown
  /\ mouseDown' = FALSE
  /\ pressed' = FALSE
  /\ emitted' = <<>>
  /\ lastOp' = "mouseup"
  /\ UNCHANGED << config, connected, inputValue, hiddenValue, timeoutId,
                  resultsTarget, resultsShown, activeDescendant, item_count,
                  uniqOptionId, replaced, abortController, cache, cycles, finished >>

\* the button pressed on the results list is released somewhere else: no
\* listener of the widget hears it
onMouseUpElsewhere ==
  /\ pressed
  /\ pressed' = FALSE
  /\ emitted' = <<>>
  /\ lastOp' = "mouseupElsewhere"
  /\ UNCHANGED << config, connected, inputValue, hiddenValue, timeoutId,
                  resultsTarget, resultsShown, activeDescendant, item_count,
                  mouseDown, uniqOptionId, replaced, abortController, cache,
                  cycles, finished >>

disconnect ==
  /\ connected
  /\ connected' = FALSE
  /\ emitted' = <<>>
  /\ lastOp' = "disconnect"
  /\ UNCHANGED << config, inputValue, hiddenValue, timeoutId, resultsTarget,
                  resultsShown, activeDescendant, item_count, mouseDown, pressed,
                  uniqOptionId, replaced, abortController, cache, cycles, finished >>

Next ==
  \/ \E v \in InputValues : onInput(v)
  \/ onInputChange
  \/ \E c \in 1..MaxFetches, ok \in BOOLEAN : onResponse(c, ok)
  \/ \E c \in 1..MaxFetches : onTransportError(c)
  \/ \E c \in 1..MaxFetches, data \in Payloads : onDecoded(c, data)
  \/ onEscapeKeydown
  \/ onArrowDownKeydown
  \/ onArrowUpKeydown
  \/ onTabKeydown
  \/ onEnterKeydown
  \/ onInputBlur
  \/ \E i \in 1..MaxChildren : onResultsClick(i)
  \/ onResultsMouseDown
  \/ onResultsMouseUp
  \/ onMouseUpElsewhere
  \/ disconnect

\* the complete machine
Spec == Init /\ [][Next]_vars

\* the query pipeline alone: typing, the debounce timer and the network
NextFetch ==
  \/ \E v \in InputValues : onInput(v)
  \/ onInputChange
  \/ \E c \in 1..MaxFetches, ok \in BOOLEAN : onResponse(c, ok)
  \/ \E c \in 1..MaxFetches : onTransportError(c)
  \/ \E c \in 1..MaxFetches, data \in Payloads : onDecoded(c, data)

SpecFetch == Init /\ [][NextFetch]_vars

\* every handler, in runs that start at most MaxKeyFetches fetch cycles
NextKeys ==
  \/ \E v \in InputValues : onInput(v)
  \/ onInputChange /\ Len(cycles') <= MaxKeyFetches
  \/ \E c \in 1..MaxFetches, ok \in BOOLEAN : onResponse(c, ok)
  \/ \E c \in 1..MaxFetches : onTransportError(c)
  \/ \E c \in 1..MaxFetches, data \in Payloads : onDecoded(c, data)
  \/ onEscapeKeydown
  \/ onArrowDownKeydown
  \/ onArrowUpKeydown
  \/ onTabKeydown
  \/ onEnterKeydown
  \/ onInputBlur
  \/ \E i \in 1..MaxChildren : onResultsClick(i)
  \/ onResultsMouseDown
  \/ onResultsMouseUp
  \/ onMouseUpElsewhere
  \/ disconnect

SpecKeys == Init /\ [][NextKeys]_vars

\* replaceResults(json_response, query) and the two events that follow it in
\* fetchResults, for any response and query
onReplaceResults(json_response, query) ==
  /\ SetWidget(dispatch(replaceResults(widget, json_response, query),
                        << "load", "loadend" >>), "")
  /\ uniqOptionId' <= MaxOptionId
  /\ Len(resultsTarget') <= MaxOptionId
  /\ UNCHANGED << config, connected, timeoutId, mouseDown, pressed, abortController,
                  cache, cycles, finished >>

NextMerge ==
  \E json_response \in Responses, query \in MergeQueries :
    onReplaceResults(json_response, query)

\* responses merged one after the other into the list of one widget
InitMerge == Init /\ hasUrlValue /\ minLengthValue = 0 /\ ~hasHiddenTarget

SpecMerge == InitMerge /\ [][NextMerge]_vars

\* responses merged into the list of one widget while the keyboard and the
\* mouse select and commit its options
NextSelect ==
  \/ \E json_response \in SelectResponses, query \in MergeQueries :
       onReplaceResults(json_response, query)
  \/ onEscapeKeydown
  \/ onArrowDownKeydown
  \/ onArrowUpKeydown
  \/ onTabKeydown
  \/ onEnterKeydown
  \/ onInputBlur
  \/ \E i \in 1..MaxChildren : onResultsClick(i)

SpecSelect == InitMerge /\ [][NextSelect]_vars

\* ================================================================ claims
Queries == { trim(v) : v \in InputValues } \ { <<>> }

outstanding == { c \in DOMAIN cycles : unfinished(cycles[c]) }

placeholders(dom) == { i \in DOMAIN dom : dom[i].disabled }

hasEvent(ev, type) == \E i \in DOMAIN ev : ev[i].type = type

\* a step that ran replaceResults
MergeStep == hasEvent(emitted', "load")

\* C1: a request that was still pending when a later fetch started never has
\* its result merged into the list.
C1_StaleNeverApplied == \A f \in finished : f.superseded => ~f.merged

\* C2: a request aborted because a newer one superseded it emits no `error`
\* event: its cycle never reaches the catch block.
C2_CancelledSilent ==
  \A f \in finished : f.outcome = "aborted" => ~includes(f.events, "error")

C4_OpenOnlyWithItems ==
  [][ /\ (~resultsShown /\ resultsShown') => (MergeStep /\ item_count' > 0)
      /\ (MergeStep /\ item_count' = 0) => ~resultsShown' ]_vars

\* C5: the list never holds more than one "No results" placeholder, and never
\* a placeholder next to an enabled option.
C5_OnePlaceholder ==
  /\ Cardinality(placeholders(resultsTarget)) <= 1
  /\ placeholders(resultsTarget) # {} => options(resultsTarget) = <<>>

\* C6: at most one request is outstanding (issued, neither decoded nor failed)
\* at any time.
C6_OneOutstanding == Cardinality(outstanding) <= 1

\* C7: a cycle that ended emitted loadstart, then load or error (never both),
\* then loadend, with load exactly when its payload was merged; a cycle still
\* waiting has emitted loadstart only.
C7_CycleEvents ==
  /\ \A f \in finished :
       /\ f.events \in { << "loadstart", "load", "loadend" >>,
                         << "loadstart", "error", "loadend" >> }
       /\ includes(f.events, "load") <=> f.merged
       /\ f.merged <=> f.outcome = "loaded"
  /\ \A c \in outstanding : cycles[c].events = << "loadstart" >>

\* C7 witness: one cycle ended with load and another with error
C7_Witness ==
  /\ \E f \in finished : f.events = << "loadstart", "load", "loadend" >>
  /\ \E f \in finished : f.events = << "loadstart", "error", "loadend" >>

\* a step in which a request ended without being merged and without a new
\* fetch having started: it failed (non-2xx status, transport or decode error)
RequestFailed ==
  /\ \E c \in outstanding : cycles'[c] = doneCycle
  /\ Len(cycles') = Len(cycles)
  /\ ~MergeStep

\* C8: a failing fetch emits error then loadend, is recorded as failed, starts
\* no new request (no retry), adds nothing to the cache and leaves the rendered
\* list and its open / closed state as they were.
C8_FailureLeavesList ==
  [][ RequestFailed
        => /\ emitted' = << plainEvent("error"), plainEvent("loadend") >>
           /\ \E f \in finished' :
                f.outcome = "failed" /\ f.events = << "loadstart", "error", "loadend" >>
           /\ outstanding' \subseteq outstanding
           /\ cache' = cache
           /\ resultsTarget' = resultsTarget
           /\ resultsShown' = resultsShown ]_vars

\* C8 witness: a request has just failed while the list is open with options
C8_Witness ==
  /\ emitted = << plainEvent("error"), plainEvent("loadend") >>
  /\ \E f \in finished : f.outcome = "failed"
  /\ resultsShown
  /\ options(resultsTarget) # <<>>

\* C9: Enter or Tab pressed while the list is closed changes no input value
\* and emits no autocomplete.change event.
C9_ClosedNoCommit ==
  [][ (lastOp' \in { "Tab", "Enter" } /\ ~resultsShown)
        => /\ inputValue' = inputValue
           /\ hiddenValue' = hiddenValue
           /\ ~hasEvent(emitted', "autocomplete.change") ]_vars

\* where the arrow keys must move the selection, as a position in the list
arrowTarget(dom, next) ==
  LET opts == options(dom)
      sel == selectedOption(dom)
      at == { k \in DOMAIN opts : opts[k] = sel }
      k == IF at = {} THEN 0 ELSE Min(at)
  IN IF next
     THEN (IF k = 0 \/ k = Len(opts) THEN opts[1] ELSE opts[k + 1])
     ELSE (IF k = 0 \/ k = 1 THEN opts[Len(opts)] ELSE opts[k - 1])

selectedSet(dom) == { i \in DOMAIN dom : dom[i].selected }

\* C10: with at least one enabled option, ArrowDown selects the first option
\* from no selection, wraps from the last to the first and otherwise moves to
\* the next option; ArrowUp selects the last option from no selection, wraps
\* from the first to the last and otherwise moves to the previous option; the
\* selection is never the disabled placeholder.
C10_ArrowNavigation ==
  [][ /\ (lastOp' = "ArrowDown" /\ options(resultsTarget) # <<>>)
           => selectedSet(resultsTarget') = { arrowTarget(resultsTarget, TRUE) }
      /\ (lastOp' = "ArrowUp" /\ options(resultsTarget) # <<>>)
           => selectedSet(resultsTarget') = { arrowTarget(resultsTarget, FALSE) }
      /\ \A i \in selectedSet(resultsTarget') : ~resultsTarget'[i].disabled ]_vars

\* C10 witness: ArrowDown has moved the selection from the first of three
\* options to the second
C10_Witness ==
  /\ lastOp = "ArrowDown"
  /\ Len(options(resultsTarget)) = 3
  /\ selectedSet(resultsTarget) = { options(resultsTarget)[2] }

\* the actions of the toggle events in a list of events, in order
toggles(ev) ==
  LET F[i \in 0..Len(ev)] ==
        IF i = 0 THEN <<>>
        ELSE IF ev[i].type = "toggle" THEN Append(F[i - 1], ev[i].action)
        ELSE F[i - 1]
  IN F[Len(ev)]

\* C11: Escape on an open list closes it, removes every child of the list and
\* emits one toggle/close event and nothing else; Escape on a closed list
\* emits nothing and leaves the list, the selection, item_count and the input
\* as they were.
C11_Escape ==
  [][ lastOp' = "Escape"
        => IF resultsShown
           THEN /\ ~resultsShown'
                /\ resultsTarget' = <<>>
                /\ emitted' = << toggleEvent("close") >>
           ELSE /\ emitted' = <<>>
                /\ UNCHANGED << resultsTarget, resultsShown, activeDescendant,
                                item_count, inputValue, hiddenValue >> ]_vars

\* C11 witness: Escape has just closed and emptied the list
C11_Witness ==
  /\ lastOp = "Escape"
  /\ emitted = << toggleEvent("close") >>
  /\ resultsTarget = <<>>
  /\ ~resultsShown

\* C11 witness of the no-op: Escape was pressed on a closed list that still
\* holds a selected option
C11_WitnessClosed ==
  /\ lastOp = "Escape"
  /\ emitted = <<>>
  /\ ~resultsShown
  /\ selectedOption(resultsTarget) # 0

\* what replaceResults would do if it ran once more, right after this step,
\* with the arguments it has just been given
ranAgain == replaceResults(widget', replaced'.json_response, replaced'.query)

\* C12: a merge run a second time with the same item list and query creates
\* and destroys no element: the children of the list, their order, their
\* ids and the id counter are as the first run left them.
C12_MergeIdempotent ==
  [][ MergeStep => /\ ranAgain.dom = resultsTarget'
                   /\ ranAgain.uid = uniqOptionId' ]_vars

\* C12 restricted to the edition with the cache and to merges that render at
\* least one option
C12_OptionsIdempotent ==
  [][ (MergeStep /\ variant = "withCache" /\ item_count' > 0)
        => /\ ranAgain.dom = resultsTarget'
           /\ ranAgain.uid = uniqOptionId' ]_vars

\* the text an option shows: its text content without surrounding white space
displayText(li) == trim(li.value)

changeEvents(ev) == SelectSeq(ev, LAMBDA e : e.type = "autocomplete.change")

\* what the claim says a step that commits the option li has done
committed(li) ==
  /\ inputValue' = displayText(li)
  /\ hasHiddenTarget => hiddenValue' = li.value
  /\ ~resultsShown'
  /\ resultsTarget' = <<>>
  /\ changeEvents(emitted') = << changeEvent(li.value, displayText(li)) >>

\* C13: a step that commits an enabled option (Tab or Enter on the selected
\* option, a click on an option) writes its display text to the input and its
\* value to the hidden field when there is one, leaves the list closed and
\* empty and emits exactly one autocomplete.change event carrying the value
\* and the display text; a click that meets no enabled option changes and
\* emits nothing.
C13_Commit ==
  [][ LET sel == selectedOption(resultsTarget) IN
      /\ (lastOp' = "Tab" /\ sel # 0) => committed(resultsTarget[sel])
      /\ (lastOp' = "Enter" /\ sel # 0 /\ resultsShown)
            => committed(resultsTarget[sel])
      /\ lastOp' = "click"
            => \/ \E i \in DOMAIN resultsTarget :
                    ~resultsTarget[i].disabled /\ committed(resultsTarget[i])
               \/ /\ emitted' = <<>>
                  /\ UNCHANGED << resultsTarget, resultsShown, inputValue,
                                  hiddenValue >> ]_vars

\* C13 in the edition with a hidden field, when the instance has one
C13_CommitWithHidden ==
  [][ hasHiddenTarget =>
      LET sel == selectedOption(resultsTarget) IN
      /\ (lastOp' = "Tab" /\ sel # 0) => committed(resultsTarget[sel])
      /\ (lastOp' = "Enter" /\ sel # 0 /\ resultsShown)
            => committed(resultsTarget[sel])
      /\ lastOp' = "click"
            => \/ \E i \in DOMAIN resultsTarget :
                    ~resultsTarget[i].disabled /\ committed(resultsTarget[i])
               \/ /\ emitted' = <<>>
                  /\ UNCHANGED << resultsTarget, resultsShown, inputValue,
                                  hiddenValue >> ]_vars

\* a timer of the debounced wrapper fired: the input-change handler ran
HandlerRun == timeoutId' < timeoutId

\* the query of the fetch a step started
startedQuery ==
  IF cycles'[Len(cycles')].status = "pending"
  THEN cycles'[Len(cycles')].query ELSE replaced'.query

\* C14: whatever the burst of input events, one timer at most is left to
\* fire, so the burst is followed by one run of the handler; the handler runs
\* only when that timer fires, no further run is then owed, and the fetch it
\* starts (one at most) asks for the trimmed value the input holds at that
\* moment.  A timer left over from an earlier event of the burst would fire
\* inside the delay window of the newer event: there is never one.
C14_Debounce ==
  [][ /\ timeoutId' <= 1
      /\ HandlerRun => timeoutId' = 0
      /\ Len(cycles') > Len(cycles)
           => /\ HandlerRun
              /\ Len(cycles') = Len(cycles) + 1
              /\ startedQuery = trim(inputValue) ]_vars

\* C14 witness: the timer has fired after the last input event and the handler
\* asked for the value the input holds
C14_Witness ==
  /\ timeoutId = 0
  /\ cycles # <<>>
  /\ cycles[Len(cycles)].status = "pending"
  /\ cycles[Len(cycles)].query = << "a", "A" >>
  /\ inputValue = << "a", "A" >>

\* the values of the rendered options, in document order
optionValues(dom) ==
  [ k \in DOMAIN options(dom) |-> dom[options(dom)[k]].value ]

\* the entries of list l at the positions in P, in order
pick(l, P) ==
  [ k \in 1..Cardinality(P) |->
      l[CHOOSE i \in P : Cardinality({ j \in P : j < i }) = k - 1] ]

\* C15: the list getUniqueItemList returns begins with exact_items as given;
\* what follows is `items` with its exact matches left out and the order of
\* the rest kept; no exact match is in that tail, and every entry of `items`
\* and of `exact_items` is in the list.
C15_UniqueItemList ==
  LET r == replaced.all_items
      e == replaced.json_response.exact_items
      it == replaced.json_response.items
      tail == SubSeq(r, Len(e) + 1, Len(r))
  IN /\ Len(r) >= Len(e)
     /\ SubSeq(r, 1, Len(e)) = e
     /\ tail = pick(it, { i \in DOMAIN it : ~includes(e, it[i]) })
     /\ \A k \in DOMAIN tail : ~includes(e, tail[k])
     /\ \A i \in DOMAIN it : includes(r, it[i])
     /\ \A i \in DOMAIN e : includes(r, e[i])

\* C15 witness: a response whose exact matches are in `items`, between
\* entries that are not exact matches, has been merged
C15_Witness ==
  /\ replaced.json_response.exact_items = << << "a", "a" >>, << "a" >> >>
  /\ replaced.json_response.items = << << "a" >>, << "A" >>, << "a", "a" >> >>
  /\ replaced.all_items = << << "a", "a" >>, << "a" >>, << "A" >> >>

\* the first position of x in list l
firstAt(l, x) == Min({ i \in DOMAIN l : l[i] = x })

\* C16: after a merge the rendered options stand in the order in which their
\* items stand in the list that was merged (exact matches first).
C16_ResponseOrder ==
  [][ MergeStep =>
        LET v == optionValues(resultsTarget')
            all == replaced'.all_items
        IN \A i, j \in DOMAIN v :
             (i < j /\ v[i] # v[j] /\ includes(all, v[i]) /\ includes(all, v[j]))
               => firstAt(all, v[i]) < firstAt(all, v[j]) ]_vars

\* C17: item_count is the number of rendered options that are not disabled.
C17_ItemCount == item_count = Len(options(resultsTarget))

\* C17 restricted to the states a merge has just produced
C17_ItemCountAfterMerge ==
  [][ MergeStep => item_count' = Len(options(resultsTarget')) ]_vars

\* item holds query as a substring, letter case aside
containsQuery(item, query) ==
  \E k \in 0..(Len(item) - Len(query)) :
    toLowerCase(SubSeq(item, k + 1, k + Len(query))) = toLowerCase(query)

\* C18: after a merge the values of the rendered options are exactly the
\* items of the merged list that hold the query as a case-insensitive
\* substring: no other item is rendered and no option of an earlier merge
\* with another value is left.
C18_RenderedSet ==
  [][ MergeStep =>
        LET v == optionValues(resultsTarget')
            all == replaced'.all_items
        IN { v[k] : k \in DOMAIN v } =
             { all[i] : i \in { j \in DOMAIN all :
                                  containsQuery(all[j], replaced'.query) } } ]_vars

\* C18 witness: the latest merge kept one option, dropped an item that does
\* not hold the query and removed the two other options made before
C18_Witness ==
  /\ replaced.query = << "A", "a" >>
  /\ includes(replaced.all_items, << "a" >>)
  /\ optionValues(resultsTarget) = << << "a", "a" >> >>
  /\ uniqOptionId = 3

cacheKeys(c) == { c[i].key : i \in DOMAIN c }

cached(c, key) == c[CHOOSE i \in DOMAIN c : c[i].key = key].data

\* C19: a key of the cache stays in it with the payload it was stored with;
\* an entry is added only by the step in which a request that got a 2xx
\* response finishes decoding, under the lowercased query of that request, and
\* that request is then recorded as loaded, not as aborted or failed.
C19_CacheGrows ==
  [][ /\ \A k \in cacheKeys(cache) :
           k \in cacheKeys(cache') /\ cached(cache', k) = cached(cache, k)
      /\ \A k \in cacheKeys(cache') \ cacheKeys(cache) :
           /\ cacheKeys(cache') = cacheKeys(cache) \cup { k }
           /\ \E c \in DOMAIN cycles :
                /\ cycles[c].status = "decoding"
                /\ cycles'[c] = doneCycle
                /\ k = toLowerCase(cycles[c].query)
                /\ cached(cache', k) = replaced'.json_response
                /\ finished' = finished \cup { loaded(cycles[c], <<>>) } ]_vars

\* C19 witness: the cache holds two entries, and a request was aborted
\* without leaving one
C19_Witness ==
  /\ Len(cache) = 2
  /\ \E f \in finished : f.outcome = "aborted"

\* C20: a step emits at most one toggle event, "close" when the list was
\* shown and "open" when it was hidden, and the list changes between shown and
\* hidden exactly in the steps that emit one: over a run the toggle actions
\* alternate strictly and each marks a change of visibility.  open() on a
\* shown list and close() on a hidden list emit nothing and leave it as it is.
C20_ToggleAlternates ==
  [][ LET t == toggles(emitted') IN
      /\ Len(t) <= 1
      /\ t # <<>> => t[1] = IF resultsShown THEN "close" ELSE "open"
      /\ resultsShown' = IF t = <<>> THEN resultsShown ELSE ~resultsShown ]_vars

\* C20 witness: open() ran on a list already shown (a second merge) and
\* emitted no toggle
C20_Witness ==
  /\ hasEvent(emitted, "load")
  /\ toggles(emitted) = <<>>
  /\ resultsShown
  /\ Cardinality({ f \in finished : f.merged }) >= 2

\* C20 witness of a close after an open
C20_WitnessClose ==
  /\ toggles(emitted) = << "close" >>
  /\ ~resultsShown

\* the input holds a query the handler fetches for
fetchable(value) == trim(value) # <<>> /\ Len(trim(value)) >= minLengthValue

\* the part of C21 about the run of the handler itself: with a url, it starts
\* a fetch exactly when the trimmed input is not empty and at least minLength
\* long, and otherwise leaves the list closed and empty
C21_FetchGate ==
  [][ (HandlerRun /\ hasUrlValue) =>
        /\ Len(cycles') > Len(cycles) <=> fetchable(inputValue)
        /\ ~fetchable(inputValue) => (~resultsShown' /\ resultsTarget' = <<>>) ]_vars

\* C21: when the handler runs, a fetch starts exactly when the trimmed input
\* is not empty and at least minLength long; otherwise the list is closed and
\* emptied, and it is still closed and empty as long as no input event has
\* come since (no timer is pending and the input holds no query to fetch).
C21_InputChange ==
  [][ /\ (HandlerRun /\ hasUrlValue) =>
           /\ Len(cycles') > Len(cycles) <=> fetchable(inputValue)
           /\ ~fetchable(inputValue) => (~resultsShown' /\ resultsTarget' = <<>>)
      /\ (timeoutId' = 0 /\ ~fetchable(inputValue'))
           => (~resultsShown' /\ resultsTarget' = <<>>) ]_vars

\* the part of C22 about the blur handler: it closes the list unless
\* mouseDown is set, and then changes and emits nothing
C22_BlurGuard ==
  [][ lastOp' = "blur" =>
        IF mouseDown
        THEN /\ emitted' = <<>>
             /\ UNCHANGED << resultsTarget, resultsShown, activeDescendant,
                             item_count, inputValue, hiddenValue, mouseDown >>
        ELSE ~resultsShown' ]_vars

\* C22: a blur closes the list unless mouseDown is set, and then changes
\* nothing; mouseDown is set only while the button pressed on the results
\* list is held, so a blur after its release leaves the list closed.
C22_Blur ==
  [][ /\ lastOp' = "blur" =>
           IF mouseDown
           THEN /\ emitted' = <<>>
                /\ UNCHANGED << resultsTarget, resultsShown, activeDescendant,
                                item_count, inputValue, hiddenValue, mouseDown >>
           ELSE ~resultsShown'
      /\ mouseDown' => pressed'
      /\ (lastOp' = "blur" /\ ~pressed) => ~resultsShown' ]_vars

\* C23: at most one rendered option is marked selected, and the selected
\* option is never the disabled placeholder.
C23_OneSelected ==
  /\ Cardinality(selectedSet(resultsTarget)) <= 1
  /\ \A i \in selectedSet(resultsTarget) : ~resultsTarget[i].disabled

\* C23 witness: a merge has just reused the selected option, after an option
\* made earlier was removed from the list
C23_Witness ==
  /\ hasEvent(emitted, "load")
  /\ selectedSet(resultsTarget) # {}
  /\ \E k \in 0..(uniqOptionId - 1) :
       \A i \in DOMAIN resultsTarget : resultsTarget[i].id # k

\* the ids of the options in the list that are marked selected
selectedIds(dom) == { dom[i].id : i \in selectedSet(dom) }

\* C24: whenever the input carries aria-activedescendant, it is the id of an
\* option that is in the list and marked selected.
C24_ActiveDescendant ==
  activeDescendant # NoId => activeDescendant \in selectedIds(resultsTarget)

\* the part of C24 that select() establishes: after an arrow key has selected
\* an option, aria-activedescendant is the id of that option
C24_SelectSetsReference ==
  [][ (lastOp' \in { "ArrowDown", "ArrowUp" } /\ selectedSet(resultsTarget') # {})
        => activeDescendant' \in selectedIds(resultsTarget') ]_vars

\* C25: once disconnect() has run, no fetch starts and the results list and
\* its open/closed state never change again.
C25_AfterDisconnect ==
  [][ ~connected =>
        /\ Len(cycles') = Len(cycles)
        /\ UNCHANGED << resultsTarget, resultsShown >> ]_vars

\* the part of C25 about a response that arrives after disconnect: it is
\* never merged into the list
C25_NoMergeAfterDisconnect ==
  [][ ~connected => ~MergeStep ]_vars

====
